---- MODULE Spec2Model ----
(***************************************************************************)
(* Ontario residency tracker: the three Streamlit scripts src/1.py,        *)
(* src/2.py and src/new.py.  The state is the Streamlit session            *)
(* (st.session_state.trips, the widgets' values), the browser URL          *)
(* (st.query_params) and what the last script run displayed.  Every user   *)
(* interaction reruns the whole script, so one action is one script run.   *)
(***************************************************************************)
EXTENDS Integers, Sequences, FiniteSets, TLC

VARIABLES app, clock, trips, url, uploaded_file, target_date, today,
          shown, result, advice, chart_data, cross_points, last_error

vars == <<app, clock, trips, url, uploaded_file, target_date, today,
          shown, result, advice, chart_data, cross_points, last_error>>

\* ------------------------------------------------------------------------
\* Program constants
\* ------------------------------------------------------------------------
THRESHOLD_DAYS == 365
WINDOW_YEARS == 2
days_range == 120

\* Bound of the model: the longest trip list the host is driven to.
MaxTrips == 2

\* ------------------------------------------------------------------------
\* datetime.date: a date is the record [year, month, day]; ordering is the
\* lexicographic order on (year, month, day); differences and timedelta
\* shifts go through the proleptic Gregorian ordinal.
\* ------------------------------------------------------------------------
D(y, m, d) == [year |-> y, month |-> m, day |-> d]

is_leap(y) == y % 4 = 0 /\ (y % 100 # 0 \/ y % 400 = 0)

DAYS_IN_MONTH == <<31, 28, 31, 30, 31, 30, 31, 31, 30, 31, 30, 31>>

DAYS_BEFORE_MONTH == <<0, 31, 59, 90, 120, 151, 181, 212, 243, 273, 304, 334>>

days_in_month(y, m) == IF m = 2 /\ is_leap(y) THEN 29 ELSE DAYS_IN_MONTH[m]

days_before_year(y) ==
    LET p == y - 1 IN p * 365 + (p \div 4) - (p \div 100) + (p \div 400)

days_before_month(y, m) ==
    DAYS_BEFORE_MONTH[m] + (IF m > 2 /\ is_leap(y) THEN 1 ELSE 0)

\* date.toordinal()
toordinal(dt) ==
    days_before_year(dt.year) + days_before_month(dt.year, dt.month) + dt.day

\* date.fromordinal(n)
fromordinal(n) ==
    LET n0   == n - 1
        n400 == n0 \div 146097
        r400 == n0 % 146097
        n100 == r400 \div 36524
        r100 == r400 % 36524
        n4   == r100 \div 1461
        r4   == r100 % 1461
        n1   == r4 \div 365
        r1   == r4 % 365
        y    == n400 * 400 + 1 + n100 * 100 + n4 * 4 + n1
    IN  IF n1 = 4 \/ n100 = 4
        THEN D(y - 1, 12, 31)
        ELSE LET leapyear == n1 = 3 /\ (n4 # 24 \/ n100 = 3)
                 m0    == (r1 + 50) \div 32
                 prec0 == DAYS_BEFORE_MONTH[m0]
                          + (IF m0 > 2 /\ leapyear THEN 1 ELSE 0)
                 m     == IF prec0 > r1 THEN m0 - 1 ELSE m0
                 prec  == IF prec0 > r1
                          THEN prec0 - (DAYS_IN_MONTH[m]
                                        + (IF m = 2 /\ leapyear THEN 1 ELSE 0))
                          ELSE prec0
             IN  D(y, m, r1 - prec + 1)

\* the date constructor's check: a real calendar date
valid_date(y, m, d) ==
    /\ y >= 1 /\ y <= 9999
    /\ m >= 1 /\ m <= 12
    /\ d >= 1 /\ d <= days_in_month(y, m)

\* a < b, a <= b, a > b on dates
date_lt(a, b) ==
    \/ a.year < b.year
    \/ a.year = b.year /\ a.month < b.month
    \/ a.year = b.year /\ a.month = b.month /\ a.day < b.day

date_le(a, b) == a = b \/ date_lt(a, b)

date_gt(a, b) == date_lt(b, a)

\* max(a, b) and min(a, b) as Python computes them on two dates
date_max(a, b) == IF date_gt(b, a) THEN b ELSE a

date_min(a, b) == IF date_lt(b, a) THEN b ELSE a

\* (a - b).days
days_between(a, b) == toordinal(a) - toordinal(b)

\* a + timedelta(days = n)
plus_days(a, n) == fromordinal(toordinal(a) + n)

\* ------------------------------------------------------------------------
\* Window accounting (src/new.py calculate_days_for_date, src/2.py and
\* src/1.py calculate_days).  A trip is the record [start, end].
\* ------------------------------------------------------------------------
\* window_start with the Feb 29 fallback moved to Mar 1 instead of Feb 28
window_start_march1(target) ==
    IF valid_date(target.year - WINDOW_YEARS, target.month, target.day)
    THEN D(target.year - WINDOW_YEARS, target.month, target.day)
    ELSE D(target.year - WINDOW_YEARS, 3, 1)

\* target_date.replace(year = target_date.year - WINDOW_YEARS), with the
\* ValueError fallback to day 28
window_start(target) ==
    IF valid_date(target.year - WINDOW_YEARS, target.month, target.day)
    THEN D(target.year - WINDOW_YEARS, target.month, target.day)
    ELSE D(target.year - WINDOW_YEARS, target.month, 28)

\* trip_step without the clamp of effective_start at the window start
trip_step_unclamped(acc, trip, start_window, target, now) ==
    LET effective_start == trip.start
        effective_end   == date_min(trip.end, target)
    IN  IF date_lt(effective_start, effective_end)
        THEN LET days_out == days_between(effective_end, effective_start)
             IN  [days_absent |-> acc.days_absent + days_out,
                  future_conflict_days |->
                      IF date_gt(trip.start, now)
                      THEN acc.future_conflict_days + days_out
                      ELSE acc.future_conflict_days]
        ELSE acc

\* trip_step with the future test `trip['start'] >= today`
trip_step_today_inclusive(acc, trip, start_window, target, now) ==
    LET effective_start == date_max(trip.start, start_window)
        effective_end   == date_min(trip.end, target)
    IN  IF date_lt(effective_start, effective_end)
        THEN LET days_out == days_between(effective_end, effective_start)
             IN  [days_absent |-> acc.days_absent + days_out,
                  future_conflict_days |->
                      IF date_le(now, trip.start)
                      THEN acc.future_conflict_days + days_out
                      ELSE acc.future_conflict_days]
        ELSE acc

\* one pass of the body of `for trip in trips`: the new values of
\* (days_absent, future_conflict_days)
trip_step(acc, trip, start_window, target, now) ==
    LET effective_start == date_max(trip.start, start_window)
        effective_end   == date_min(trip.end, target)
    IN  IF date_lt(effective_start, effective_end)
        THEN LET days_out == days_between(effective_end, effective_start)
             IN  [days_absent |-> acc.days_absent + days_out,
                  future_conflict_days |->
                      IF date_gt(trip.start, now)
                      THEN acc.future_conflict_days + days_out
                      ELSE acc.future_conflict_days]
        ELSE acc

\* trip_loop skipping a trip equal to one already counted
RECURSIVE trip_loop_dedup(_, _, _, _, _, _)
trip_loop_dedup(ts, i, acc, start_window, target, now) ==
    IF i > Len(ts) THEN acc
    ELSE trip_loop_dedup(ts, i + 1,
             IF \E j \in 1 .. i - 1 : ts[j] = ts[i] THEN acc
             ELSE trip_step(acc, ts[i], start_window, target, now),
             start_window, target, now)

RECURSIVE trip_loop(_, _, _, _, _, _)
trip_loop(ts, i, acc, start_window, target, now) ==
    IF i > Len(ts) THEN acc
    ELSE trip_loop(ts, i + 1, trip_step(acc, ts[i], start_window, target, now),
                   start_window, target, now)

\* present_of floored at zero
present_floored(total_window_days, days_absent) ==
    IF total_window_days - days_absent < 0 THEN 0
    ELSE total_window_days - days_absent

\* days_present = total_window_days - days_absent
present_of(total_window_days, days_absent) == total_window_days - days_absent

\* calculate_days_for_date(target_date, trips); `now` is the value
\* datetime.date.today() returns during the call.  The record carries the
\* returned triple and the two locals the window is described by.
calculate_days_for_date(target, ts, now) ==
    LET start_window      == window_start(target)
        total_window_days == days_between(target, start_window)
        acc == trip_loop(ts, 1, [days_absent |-> 0, future_conflict_days |-> 0],
                         start_window, target, now)
    IN  [start_window         |-> start_window,
         total_window_days    |-> total_window_days,
         days_present         |-> present_of(total_window_days, acc.days_absent),
         days_absent          |-> acc.days_absent,
         future_conflict_days |-> acc.future_conflict_days]

\* calculate_days(target_date) of src/2.py and src/1.py: the same window and
\* the same loop without the future-trip branch (reported here as 0).
calculate_days(target, ts) ==
    LET start_window      == window_start(target)
        total_window_days == days_between(target, start_window)
        acc == trip_loop(ts, 1, [days_absent |-> 0, future_conflict_days |-> 0],
                         start_window, target, target)
    IN  [start_window         |-> start_window,
         total_window_days    |-> total_window_days,
         days_present         |-> present_of(total_window_days, acc.days_absent),
         days_absent          |-> acc.days_absent,
         future_conflict_days |-> 0]

\* ------------------------------------------------------------------------
\* Trend scan (src/new.py lines 134-164)
\* ------------------------------------------------------------------------
\* date_range without its last day
date_range_open(start, end) ==
    [i \in 1 .. (toordinal(end) - toordinal(start)) |->
        fromordinal(toordinal(start) + i - 1)]

\* pd.date_range(start, end): one entry per calendar day, both ends included
date_range(start, end) ==
    [i \in 1 .. (toordinal(end) - toordinal(start) + 1) |->
        fromordinal(toordinal(start) + i - 1)]

\* prev_present seeded with 0
seed_zero(dr, ts, now) == 0

\* the seed of prev_present: one evaluation at date_range[0]
seed_present(dr, ts, now) == calculate_days_for_date(dr[1], ts, now).days_present

\* the crossing test of the loop body
is_crossing(prev_present, curr_present) ==
    \/ prev_present >= THRESHOLD_DAYS /\ curr_present < THRESHOLD_DAYS
    \/ prev_present < THRESHOLD_DAYS /\ curr_present >= THRESHOLD_DAYS

\* the loop `for d in date_range` (lines 144-164), unrolled over the index.
\* history lists the values prev_present takes: the seed, then the
\* curr_present of each pass; so pass i enters with history[i] and computes
\* history[i + 1].  chart_data gets one row per pass, cross_points one row
\* per pass whose crossing test is true, in the order of the passes.
scan_loop(dr, seed, ts, now) ==
    LET n       == Len(dr)
        history == <<seed>> \o
                   [i \in 1 .. n |-> calculate_days_for_date(dr[i], ts, now).days_present]
        rows    == [i \in 1 .. n |-> [Date |-> dr[i], pass |-> i]]
        hits    == SelectSeq(rows, LAMBDA r : is_crossing(history[r.pass],
                                                          history[r.pass + 1]))
    IN  [chart_data   |-> [i \in 1 .. n |-> [Date |-> dr[i],
                                             DaysPresent |-> history[i + 1],
                                             SafeLine |-> THRESHOLD_DAYS]],
         cross_points |-> [k \in 1 .. Len(hits) |-> [Date |-> hits[k].Date,
                                                     DaysPresent |-> 365]]]

scan(target, ts, now) ==
    LET dr == date_range(plus_days(target, 0 - days_range),
                         plus_days(target, days_range))
    IN  scan_loop(dr, seed_present(dr, ts, now), ts, now)

\* ------------------------------------------------------------------------
\* Text forms of a date.  A string is a sequence of one-character strings.
\* ------------------------------------------------------------------------
Digits == {"0", "1", "2", "3", "4", "5", "6", "7", "8", "9"}

DigitChar == <<"0", "1", "2", "3", "4", "5", "6", "7", "8", "9">>

DigitValue == [c \in Digits |-> CHOOSE v \in 0 .. 9 : DigitChar[v + 1] = c]

\* str(date): date.isoformat(), "%04d-%02d-%02d"
str_date(dt) ==
    << DigitChar[((dt.year \div 1000) % 10) + 1],
       DigitChar[((dt.year \div 100) % 10) + 1],
       DigitChar[((dt.year \div 10) % 10) + 1],
       DigitChar[(dt.year % 10) + 1],
       "-",
       DigitChar[((dt.month \div 10) % 10) + 1],
       DigitChar[(dt.month % 10) + 1],
       "-",
       DigitChar[((dt.day \div 10) % 10) + 1],
       DigitChar[(dt.day % 10) + 1] >>

\* the value of a field of one or two digits, -1 when it is no such field
field_value(f) ==
    IF Len(f) = 1 /\ f[1] \in Digits THEN DigitValue[f[1]]
    ELSE IF Len(f) = 2 /\ f[1] \in Digits /\ f[2] \in Digits
         THEN 10 * DigitValue[f[1]] + DigitValue[f[2]]
         ELSE 0 - 1

\* datetime.datetime.strptime(s, "%Y-%m-%d").date(): four digits, "-", a
\* month of one or two digits in 1..12, "-", a day of one or two digits in
\* 1..31, nothing left over, and the three numbers a real date.
\* [ok |-> FALSE] stands for the ValueError.
strptime(s) ==
    LET n == Len(s)
        dashAt(k) == k <= n /\ s[k] = "-"
        p == IF dashAt(7) THEN 7 ELSE 8
        wellFormed ==
            /\ n >= 8 /\ n <= 10
            /\ \A k \in 1 .. 4 : s[k] \in Digits
            /\ dashAt(5)
            /\ dashAt(p)
            /\ p < n
        y == 1000 * DigitValue[s[1]] + 100 * DigitValue[s[2]]
             + 10 * DigitValue[s[3]] + DigitValue[s[4]]
        m == field_value(SubSeq(s, 6, p - 1))
        d == field_value(SubSeq(s, p + 1, n))
    IN  IF wellFormed /\ m >= 1 /\ m <= 12 /\ d >= 1 /\ d <= 31
           /\ valid_date(y, m, d)
        THEN [ok |-> TRUE, date |-> D(y, m, d)]
        ELSE [ok |-> FALSE]

\* ------------------------------------------------------------------------
\* JSON text.  A text is modelled by what json.loads makes of it:
\* [valid |-> FALSE] for a text json.loads rejects, otherwise the list of
\* objects it yields, each object a record of string-valued keys.
\* ------------------------------------------------------------------------
NoText == [valid |-> FALSE, items |-> <<>>]

json_dumps(objs) == [valid |-> TRUE, items |-> objs]

\* the loop `for t in data: loaded_trips.append({...strptime(t[ks])...})`
\* with its exception: a missing key or a ValueError fails the whole load
load_trips(text, ks, ke) ==
    IF /\ text.valid
       /\ \A i \in 1 .. Len(text.items) :
             /\ ks \in DOMAIN text.items[i]
             /\ ke \in DOMAIN text.items[i]
             /\ strptime(text.items[i][ks]).ok
             /\ strptime(text.items[i][ke]).ok
    THEN [ok |-> TRUE,
          trips |-> [i \in 1 .. Len(text.items) |->
                        [start |-> strptime(text.items[i][ks]).date,
                         end   |-> strptime(text.items[i][ke]).date]]]
    ELSE [ok |-> FALSE, trips |-> <<>>]

\* st.query_params: whether "data" is set, and its text
NoUrl == [present |-> FALSE, data |-> NoText]

get_data_from_url(u) ==
    IF u.present
    THEN IF load_trips(u.data, "s", "e").ok
         THEN load_trips(u.data, "s", "e").trips
         ELSE <<>>
    ELSE <<>>

\* update_url that leaves the parameter in place when the list is empty
update_url_keep(u, ts) ==
    IF ts # <<>>
    THEN [present |-> TRUE,
          data |-> json_dumps([i \in 1 .. Len(ts) |->
                                  [s |-> str_date(ts[i].start),
                                   e |-> str_date(ts[i].end)]])]
    ELSE u

update_url(u, ts) ==
    IF ts # <<>>
    THEN [present |-> TRUE,
          data |-> json_dumps([i \in 1 .. Len(ts) |->
                                  [s |-> str_date(ts[i].start),
                                   e |-> str_date(ts[i].end)]])]
    ELSE NoUrl

\* ------------------------------------------------------------------------
\* List operations of the handlers
\* ------------------------------------------------------------------------
\* trips.sort(key = lambda x: x['start']): a stable sort on start
RECURSIVE insert_stable(_, _)
insert_stable(sorted, x) ==
    IF sorted = <<>> THEN <<x>>
    ELSE IF date_gt(sorted[Len(sorted)].start, x.start)
         THEN Append(insert_stable(SubSeq(sorted, 1, Len(sorted) - 1), x),
                     sorted[Len(sorted)])
         ELSE Append(sorted, x)

RECURSIVE sort_by_start(_)
sort_by_start(ts) ==
    IF ts = <<>> THEN <<>>
    ELSE insert_stable(sort_by_start(SubSeq(ts, 1, Len(ts) - 1)), ts[Len(ts)])

\* del trips[i]  (i counted from 1 here)
delete_at(ts, i) == SubSeq(ts, 1, i - 1) \o SubSeq(ts, i + 1, Len(ts))

\* the add handlers' test `start > end`
rejects(d_start, d_end) == date_gt(d_start, d_end)

\* ------------------------------------------------------------------------
\* Inputs the model draws from
\* ------------------------------------------------------------------------
\* (departure, return) pairs the user enters in the two date widgets: a
\* 400-day trip, a 10-day trip, the 10-day trip reversed, a same-day trip
TripInputs ==
    { <<D(2024, 1, 1), D(2025, 2, 4)>>,
      <<D(2025, 2, 4), D(2025, 2, 14)>>,
      <<D(2025, 2, 14), D(2025, 2, 4)>>,
      <<D(2025, 2, 4), D(2025, 2, 4)>> }

\* dates the user picks in the target-date widget
TargetDates == {D(2024, 2, 29), D(2025, 3, 1), D(2027, 2, 10)}

\* values of the wall clock, datetime.date.today()
Clocks == {D(2025, 1, 15), D(2025, 2, 4)}

\* date_input(value = None) of src/1.py before a date is picked
NoDate == [year |-> 0, month |-> 0, day |-> 0]

\* texts a session may find in the URL's "data" parameter or in an
\* uploaded file: a text written by update_url / the download button, and
\* texts written by hand
TextOf(ks, ke, pairs) ==
    json_dumps([i \in 1 .. Len(pairs) |-> (ks :> pairs[i][1]) @@ (ke :> pairs[i][2])])

UrlTexts(ks, ke) ==
    { NoText,
      json_dumps(<<>>),
      TextOf(ks, ke, << <<str_date(D(2024, 1, 1)), str_date(D(2025, 2, 4))>> >>),
      TextOf(ks, ke, << <<str_date(D(2025, 2, 14)), str_date(D(2025, 2, 4))>> >>),
      TextOf(ks, ke, << << <<"2","0","2","5","-","2","-","4">>,
                           <<"2","0","2","5","-","2","-","1","4">> >> >>),
      TextOf(ks, ke, << << <<"2","0","2","5","-","0","2","-","3","0">>,
                           str_date(D(2025, 2, 14)) >> >>),
      json_dumps(<< (ks :> str_date(D(2024, 1, 1))) >>),
      TextOf(ks, ke, << <<str_date(D(2025, 2, 4)), str_date(D(2025, 2, 14))>>,
                        <<str_date(D(2024, 1, 1)), str_date(D(2025, 2, 4))>> >>) }

InitialUrls == {NoUrl} \cup {[present |-> TRUE, data |-> t] : t \in UrlTexts("s", "e")}

NoFile == [present |-> FALSE, data |-> NoText]

Files ==
    {[present |-> TRUE, data |-> t] :
        t \in { NoText,
                TextOf("start", "end",
                       << <<str_date(D(2024, 1, 1)), str_date(D(2025, 2, 4))>> >>),
                TextOf("start", "end",
                       << <<str_date(D(2025, 2, 14)), str_date(D(2025, 2, 4))>> >>) }}

\* ------------------------------------------------------------------------
\* What a script run displays
\* ------------------------------------------------------------------------
Blank == [start_window |-> NoDate, total_window_days |-> 0, days_present |-> 0,
          days_absent |-> 0, future_conflict_days |-> 0]

\* src/new.py lines 122-127: the advice below the metrics
advice_of(present, future_impact) ==
    IF present < THRESHOLD_DAYS
    THEN IF future_impact > 0 THEN "shorten_future" ELSE "past_too_long"
    ELSE "none"

\* the right column of src/new.py (lines 108-164), run on every script run
RenderNew(ts, target, now) ==
    LET r  == calculate_days_for_date(target, ts, now)
        sc == scan(target, ts, now)
    IN  /\ shown' = TRUE
        /\ result' = r
        /\ advice' = advice_of(r.days_present, r.future_conflict_days)
        /\ chart_data' = sc.chart_data
        /\ cross_points' = sc.cross_points

\* src/1.py and src/2.py show results only in the run of the Calculate button
RenderNothing ==
    /\ shown' = FALSE
    /\ result' = Blank
    /\ advice' = "none"
    /\ chart_data' = <<>>
    /\ cross_points' = <<>>

RenderCalculate(ts, target) ==
    /\ shown' = TRUE
    /\ result' = calculate_days(target, ts)
    /\ advice' = "none"
    /\ chart_data' = <<>>
    /\ cross_points' = <<>>

\* src/1.py lines 64-78, run at the top of every run of src/1.py: the
\* uploader keeps its file, and the trips are loaded from it again.
\* `readable` is whether the file object still yields its text on this run.
upload_step(ts, file, readable) ==
    IF file.present
    THEN IF readable /\ load_trips(file.data, "start", "end").ok
         THEN [trips |-> load_trips(file.data, "start", "end").trips,
               error |-> "none"]
         ELSE [trips |-> ts, error |-> "load_error"]
    ELSE [trips |-> ts, error |-> "none"]

\* ------------------------------------------------------------------------
\* Init: the first script run of a session
\* ------------------------------------------------------------------------
Init ==
    /\ app \in {"new", "2", "1"}
    /\ clock \in Clocks
    /\ today = clock
    /\ target_date = clock
    /\ uploaded_file = NoFile
    /\ last_error = "none"
    /\ url \in (IF app = "1" THEN {NoUrl} ELSE InitialUrls)
    /\ trips = (IF app = "1" THEN <<>> ELSE get_data_from_url(url))
    /\ IF app = "new"
       THEN LET r  == calculate_days_for_date(target_date, trips, clock)
                sc == scan(target_date, trips, clock)
            IN  /\ shown = TRUE
                /\ result = r
                /\ advice = advice_of(r.days_present, r.future_conflict_days)
                /\ chart_data = sc.chart_data
                /\ cross_points = sc.cross_points
       ELSE /\ shown = FALSE
            /\ result = Blank
            /\ advice = "none"
            /\ chart_data = <<>>
            /\ cross_points = <<>>

\* ------------------------------------------------------------------------
\* src/new.py
\* ------------------------------------------------------------------------
\* lines 83-90: the form is submitted with (d_start, d_end)
AddTripNew(d_start, d_end) ==
    /\ app = "new"
    /\ Len(trips) < MaxTrips
    /\ IF rejects(d_start, d_end)
       THEN /\ last_error' = "date_error"
            /\ trips' = trips
            /\ url' = url
       ELSE /\ last_error' = "none"
            /\ trips' = sort_by_start(Append(trips, [start |-> d_start, end |-> d_end]))
            /\ url' = update_url(url, trips')
    /\ today' = clock
    /\ RenderNew(trips', target_date, clock)
    /\ UNCHANGED <<app, clock, uploaded_file, target_date>>

\* lines 101-104: the delete button of row i
DeleteTripNew(i) ==
    /\ app = "new"
    /\ i \in 1 .. Len(trips)
    /\ trips' = delete_at(trips, i)
    /\ url' = update_url(url, trips')
    /\ last_error' = "none"
    /\ today' = clock
    /\ RenderNew(trips', target_date, clock)
    /\ UNCHANGED <<app, clock, uploaded_file, target_date>>

\* line 110: another target date is picked
SetTargetNew(t) ==
    /\ app = "new"
    /\ t # target_date
    /\ target_date' = t
    /\ last_error' = "none"
    /\ today' = clock
    /\ RenderNew(trips, t, clock)
    /\ UNCHANGED <<app, clock, uploaded_file, trips, url>>

\* ------------------------------------------------------------------------
\* src/2.py
\* ------------------------------------------------------------------------
\* lines 45-55 and 102-103
AddTrip2(d_start, d_end) ==
    /\ app = "2"
    /\ Len(trips) < MaxTrips
    /\ IF rejects(d_start, d_end)
       THEN /\ last_error' = "date_error"
            /\ trips' = trips
            /\ url' = url
       ELSE /\ last_error' = "none"
            /\ trips' = Append(trips, [start |-> d_start, end |-> d_end])
            /\ url' = update_url(url, trips')
    /\ today' = clock
    /\ RenderNothing
    /\ UNCHANGED <<app, clock, uploaded_file, target_date>>

\* lines 57-60 and 114-115
RemoveTrip2(i) ==
    /\ app = "2"
    /\ i \in 1 .. Len(trips)
    /\ trips' = delete_at(trips, i)
    /\ url' = update_url(url, trips')
    /\ last_error' = "none"
    /\ today' = clock
    /\ RenderNothing
    /\ UNCHANGED <<app, clock, uploaded_file, target_date>>

\* line 120
SetTarget2(t) ==
    /\ app = "2"
    /\ t # target_date
    /\ target_date' = t
    /\ last_error' = "none"
    /\ today' = clock
    /\ RenderNothing
    /\ UNCHANGED <<app, clock, uploaded_file, trips, url>>

\* lines 122-138
Calculate2 ==
    /\ app = "2"
    /\ last_error' = "none"
    /\ today' = clock
    /\ RenderCalculate(trips, target_date)
    /\ UNCHANGED <<app, clock, uploaded_file, target_date, trips, url>>

\* ------------------------------------------------------------------------
\* src/1.py
\* ------------------------------------------------------------------------
\* lines 64-78: a file is put into the uploader
Upload1(file) ==
    /\ app = "1"
    /\ uploaded_file' = file
    /\ LET up == upload_step(trips, file, TRUE)
       IN  /\ trips' = up.trips
           /\ last_error' = up.error
    /\ today' = clock
    /\ RenderNothing
    /\ UNCHANGED <<app, clock, url, target_date>>

\* lines 88-92 and 12-17; either widget may still be empty
AddTrip1(d_start, d_end, readable) ==
    /\ app = "1"
    /\ Len(trips) < MaxTrips
    /\ LET up == upload_step(trips, uploaded_file, readable)
       IN  IF d_start = NoDate \/ d_end = NoDate
           THEN /\ trips' = up.trips
                /\ last_error' = "select_both"
           ELSE IF rejects(d_start, d_end)
                THEN /\ trips' = up.trips
                     /\ last_error' = "date_error"
                ELSE /\ trips' = Append(up.trips, [start |-> d_start, end |-> d_end])
                     /\ last_error' = up.error
    /\ today' = clock
    /\ RenderNothing
    /\ UNCHANGED <<app, clock, url, uploaded_file, target_date>>

\* lines 95-102: the button exists when the list is not empty; trips = []
\* and st.rerun(); the rerun runs the uploader block again
ClearAll1(readable) ==
    /\ app = "1"
    /\ trips # <<>>
    /\ LET before == upload_step(trips, uploaded_file, readable)
       IN  /\ before.trips # <<>>
           /\ LET up == upload_step(<<>>, uploaded_file, readable)
              IN  /\ trips' = up.trips
                  /\ last_error' = up.error
    /\ today' = clock
    /\ RenderNothing
    /\ UNCHANGED <<app, clock, url, uploaded_file, target_date>>

\* line 108
SetTarget1(t, readable) ==
    /\ app = "1"
    /\ t # target_date
    /\ target_date' = t
    /\ LET up == upload_step(trips, uploaded_file, readable)
       IN  /\ trips' = up.trips
           /\ last_error' = up.error
    /\ today' = clock
    /\ RenderNothing
    /\ UNCHANGED <<app, clock, url, uploaded_file>>

\* lines 110-121
Calculate1(readable) ==
    /\ app = "1"
    /\ LET up == upload_step(trips, uploaded_file, readable)
       IN  /\ trips' = up.trips
           /\ last_error' = up.error
    /\ today' = clock
    /\ RenderCalculate(trips', target_date)
    /\ UNCHANGED <<app, clock, url, uploaded_file, target_date>>

\* ------------------------------------------------------------------------
\* The wall clock moves on between script runs
\* ------------------------------------------------------------------------
Tick ==
    /\ \E c \in Clocks : date_gt(c, clock) /\ clock' = c
    /\ UNCHANGED <<app, trips, url, uploaded_file, target_date, today,
                   shown, result, advice, chart_data, cross_points, last_error>>

Next ==
    \/ \E p \in TripInputs : AddTripNew(p[1], p[2])
    \/ \E i \in 1 .. MaxTrips : DeleteTripNew(i)
    \/ \E t \in TargetDates : SetTargetNew(t)
    \/ \E p \in TripInputs : AddTrip2(p[1], p[2])
    \/ \E i \in 1 .. MaxTrips : RemoveTrip2(i)
    \/ \E t \in TargetDates : SetTarget2(t)
    \/ Calculate2
    \/ \E f \in Files : Upload1(f)
    \/ \E p \in TripInputs \cup {<<NoDate, D(2025, 2, 4)>>}, r \in BOOLEAN :
          AddTrip1(p[1], p[2], r)
    \/ \E r \in BOOLEAN : ClearAll1(r)
    \/ \E t \in TargetDates, r \in BOOLEAN : SetTarget1(t, r)
    \/ \E r \in BOOLEAN : Calculate1(r)
    \/ Tick

Spec == Init /\ [][Next]_vars

\* ------------------------------------------------------------------------
\* Vocabulary of the properties
\* ------------------------------------------------------------------------
RECURSIVE SumSeq(_)
SumSeq(q) == IF q = <<>> THEN 0 ELSE q[1] + SumSeq(Tail(q))

Ordered(trip) == date_le(trip.start, trip.end)

LengthOf(trip) == toordinal(trip.end) - toordinal(trip.start)

\* the interval lies in [ws, target]
Inside(trip, ws, target) ==
    Ordered(trip) /\ date_le(ws, trip.start) /\ date_le(trip.end, target)

\* the interval does not reach into [ws, target], or has no length
Outside(trip, ws, target) ==
    Ordered(trip) /\ (\/ date_le(trip.end, ws)
                      \/ date_le(target, trip.start)
                      \/ trip.start = trip.end)

\* min(end, target) - max(start, ws) when positive, else 0
Deduction(trip, ws, target) ==
    LET lo == IF toordinal(trip.start) >= toordinal(ws)
              THEN toordinal(trip.start) ELSE toordinal(ws)
        hi == IF toordinal(trip.end) <= toordinal(target)
              THEN toordinal(trip.end) ELSE toordinal(target)
    IN  IF hi - lo > 0 THEN hi - lo ELSE 0

\* the evaluation the running script makes of a trip list
Evaluate(ts) ==
    IF app = "new" THEN calculate_days_for_date(target_date, ts, today)
    ELSE calculate_days(target_date, ts)

\* the calendar day after dt
NextDay(dt) ==
    IF dt.day < days_in_month(dt.year, dt.month) THEN D(dt.year, dt.month, dt.day + 1)
    ELSE IF dt.month < 12 THEN D(dt.year, dt.month + 1, 1)
    ELSE D(dt.year + 1, 1, 1)

UrlApp == app \in {"new", "2"}

\* ------------------------------------------------------------------------
\* C1: in the trend scan a crossing is recorded at date d if and only if d
\* is not the first date of the range and the days present at d - 1 and at
\* d lie on different sides of the threshold; so the first date is never a
\* crossing, every crossing is a date of series[1:], every flip yields
\* exactly one crossing, and a series on one side yields none.
\* ------------------------------------------------------------------------
C1_CrossingsAreTheFlips ==
    app = "new" =>
        LET n       == Len(chart_data)
            side(i) == chart_data[i].DaysPresent >= THRESHOLD_DAYS
            flips   == {i \in 2 .. n : side(i - 1) # side(i)}
        IN  /\ Len(cross_points) = Cardinality(flips)
            /\ {cross_points[k].Date : k \in 1 .. Len(cross_points)}
                  = {chart_data[i].Date : i \in flips}
            /\ \A k \in 1 .. Len(cross_points) - 1 :
                  date_lt(cross_points[k].Date, cross_points[k + 1].Date)
            /\ \A k \in 1 .. Len(cross_points) :
                  cross_points[k].Date # chart_data[1].Date
            /\ \A i \in 1 .. n :
                  chart_data[i].DaysPresent
                     = calculate_days_for_date(chart_data[i].Date, trips, today).days_present

C1_Witness ==
    /\ app = "new"
    /\ cross_points # <<>>
    /\ chart_data[1].DaysPresent >= THRESHOLD_DAYS

\* ------------------------------------------------------------------------
\* C2: the scan's series has exactly 2 * radiusDays + 1 points (241 for the
\* radius of 120), each point's date one calendar day after its
\* predecessor's, with no gap or duplicate, also across a Feb 29; the
\* range is centred on the target date.
\* ------------------------------------------------------------------------
C2_SeriesIsConsecutiveDays ==
    app = "new" =>
        /\ Len(chart_data) = 2 * days_range + 1
        /\ Len(chart_data) = 241
        /\ \A i \in 1 .. Len(chart_data) :
              valid_date(chart_data[i].Date.year, chart_data[i].Date.month,
                         chart_data[i].Date.day)
        /\ \A i \in 2 .. Len(chart_data) :
              chart_data[i].Date = NextDay(chart_data[i - 1].Date)
        /\ chart_data[days_range + 1].Date = target_date

C2_Witness ==
    /\ app = "new"
    /\ \E i \in 2 .. Len(chart_data) - 1 : chart_data[i].Date = D(2024, 2, 29)
    /\ \E i \in 2 .. Len(chart_data) - 1 :
          chart_data[i].Date.month = 12 /\ chart_data[i].Date.day = 31

\* ------------------------------------------------------------------------
\* C3: every interval held in the trip collection satisfies start <= end,
\* whatever sequence of host operations produced the collection.
\* ------------------------------------------------------------------------
C3_EveryIntervalOrdered ==
    \A i \in 1 .. Len(trips) : date_le(trips[i].start, trips[i].end)

\* ------------------------------------------------------------------------
\* C4: for intervals with start <= end, evaluate deducts for each interval
\* min(end, target) - max(start, windowStart) days when positive and 0
\* otherwise; an interval inside the window deducts end - start; intervals
\* outside the window, or of no length, do not change daysAbsent.
\* ------------------------------------------------------------------------
C4_DeductionIsTheOverlap ==
    (shown /\ \A i \in 1 .. Len(trips) : Ordered(trips[i])) =>
        LET ws == result.start_window
        IN  /\ result.days_absent
                  = SumSeq([i \in 1 .. Len(trips) |-> Deduction(trips[i], ws, target_date)])
            /\ (\A i \in 1 .. Len(trips) : Inside(trips[i], ws, target_date))
                  => result.days_absent
                        = SumSeq([i \in 1 .. Len(trips) |-> LengthOf(trips[i])])
            /\ result.days_absent
                  = Evaluate(SelectSeq(trips,
                        LAMBDA t : ~Outside(t, ws, target_date))).days_absent

C4_Witness ==
    /\ shown
    /\ Len(trips) = 2
    /\ \A i \in 1 .. 2 : Ordered(trips[i])
    /\ Outside(trips[1], result.start_window, target_date)
    /\ LengthOf(trips[1]) > 0
    /\ ~Outside(trips[2], result.start_window, target_date)
    /\ ~Inside(trips[2], result.start_window, target_date)
    /\ result.days_absent > 0

\* ------------------------------------------------------------------------
\* C5: daysAbsent is additive over the collection: it is the sum of what
\* each interval deducts alone, coincident intervals count twice, and the
\* order of the collection does not matter.
\* ------------------------------------------------------------------------
C5_AbsenceIsAdditive ==
    shown =>
        LET n == Len(trips)
        IN  /\ result.days_absent
                  = SumSeq([i \in 1 .. n |-> Evaluate(<<trips[i]>>).days_absent])
            /\ \A p \in Permutations(1 .. n) :
                  LET r == Evaluate([i \in 1 .. n |-> trips[p[i]]])
                  IN  /\ r.days_absent = result.days_absent
                      /\ r.days_present = result.days_present
            /\ \A i, j \in 1 .. n :
                  (i # j /\ trips[i] = trips[j]
                     /\ Inside(trips[i], result.start_window, target_date))
                  => result.days_absent >= 2 * LengthOf(trips[i])

C5_Witness ==
    /\ shown
    /\ Len(trips) = 2
    /\ trips[1] = trips[2]
    /\ Inside(trips[1], result.start_window, target_date)
    /\ LengthOf(trips[1]) = 10
    /\ result.days_absent = 20

\* ------------------------------------------------------------------------
\* C6: daysPresent + daysAbsent = totalWindowDays = targetDate -
\* windowStart, with neither term clamped: when the deductions exceed the
\* window, daysPresent is the corresponding negative number.
\* ------------------------------------------------------------------------
C6_PresentPlusAbsentIsWindow ==
    shown =>
        LET total == toordinal(target_date) - toordinal(result.start_window)
            sum   == SumSeq([i \in 1 .. Len(trips) |->
                               Deduction(trips[i], result.start_window, target_date)])
        IN  /\ result.total_window_days = total
            /\ result.days_present + result.days_absent = total
            /\ result.days_absent = sum
            /\ sum > total => result.days_present = total - sum /\ result.days_present < 0

C6_Witness ==
    /\ shown
    /\ result.days_present < 0
    /\ result.days_absent > result.total_window_days

\* ------------------------------------------------------------------------
\* C7: windowStart is the target date two years earlier, same month and
\* day, except for a Feb 29 target, where it is Feb 28; it is a real date,
\* and totalWindowDays is counted from it (2024-02-29 gives 2022-02-28 and
\* 731 days).
\* ------------------------------------------------------------------------
C7_WindowStartClamped ==
    shown =>
        LET ws   == result.start_window
            feb29 == target_date.month = 2 /\ target_date.day = 29
            \* Feb 29ths after ws and not after the target
            leapDays == {y \in ws.year .. target_date.year :
                            /\ is_leap(y)
                            /\ date_lt(ws, D(y, 2, 29))
                            /\ date_le(D(y, 2, 29), target_date)}
        IN  /\ ws.year = target_date.year - WINDOW_YEARS
            /\ ws.month = target_date.month
            /\ ws.day = (IF feb29 THEN 28 ELSE target_date.day)
            /\ valid_date(ws.year, ws.month, ws.day)
            /\ result.total_window_days = 365 * WINDOW_YEARS + Cardinality(leapDays)
            /\ target_date = D(2024, 2, 29)
                  => ws = D(2022, 2, 28) /\ result.total_window_days = 731

C7_Witness ==
    /\ shown
    /\ target_date = D(2024, 2, 29)
    /\ result.start_window = D(2022, 2, 28)
    /\ result.total_window_days = 731

\* ------------------------------------------------------------------------
\* C8: futureConflictDays is the sum of the deductions of the intervals
\* that start strictly after "now"; an interval starting on "now" or
\* earlier adds nothing; 0 <= futureConflictDays <= daysAbsent; a future
\* interval inside the window contributes its whole length.
\* ------------------------------------------------------------------------
C8_FutureConflictIsFutureDeductions ==
    (shown /\ app = "new") =>
        LET ws == result.start_window
            fut(t) == IF toordinal(t.start) > toordinal(today)
                      THEN Deduction(t, ws, target_date) ELSE 0
        IN  /\ result.future_conflict_days
                  = SumSeq([i \in 1 .. Len(trips) |-> fut(trips[i])])
            /\ result.future_conflict_days >= 0
            /\ result.future_conflict_days <= result.days_absent
            /\ (\A i \in 1 .. Len(trips) : ~date_gt(trips[i].start, today))
                  => result.future_conflict_days = 0
            /\ \A i \in 1 .. Len(trips) :
                  (date_gt(trips[i].start, today) /\ Inside(trips[i], ws, target_date))
                  => result.future_conflict_days >= LengthOf(trips[i])
            /\ calculate_days_for_date(D(2026, 3, 1),
                   <<[start |-> D(2026, 1, 1), end |-> D(2026, 2, 1)]>>,
                   D(2025, 6, 1)).future_conflict_days = 31

C8_BoundaryReached ==
    /\ shown /\ app = "new"
    /\ Len(trips) = 2
    /\ trips[2].start = today
    /\ Inside(trips[2], result.start_window, target_date)
    /\ LengthOf(trips[2]) > 0
    /\ result.future_conflict_days = 0
    /\ result.days_absent > 0

C8_Witness ==
    /\ shown /\ app = "new"
    /\ Len(trips) = 2
    /\ date_gt(trips[2].start, today)
    /\ Inside(trips[2], result.start_window, target_date)
    /\ result.future_conflict_days = LengthOf(trips[2])
    /\ result.future_conflict_days > 0
    /\ result.future_conflict_days < result.days_absent

\* ------------------------------------------------------------------------
\* C9: when the advice to shorten future travel by the shortfall is shown,
\* the shortfall is at most futureConflictDays; when the alert about past
\* absences is shown instead, futureConflictDays is 0.
\* ------------------------------------------------------------------------
C9_AdviceIsAchievable ==
    /\ advice = "shorten_future"
          => THRESHOLD_DAYS - result.days_present <= result.future_conflict_days
    /\ advice = "past_too_long" => result.future_conflict_days = 0

\* ------------------------------------------------------------------------
\* C10: in the URL-persisting scripts the "data" parameter is in sync with
\* the trip list after session initialisation and after every add-trip and
\* remove-trip: absent exactly when the list is empty, and otherwise
\* decoding to exactly the list.
\* ------------------------------------------------------------------------
C10_UrlInSync ==
    UrlApp =>
        /\ url.present <=> trips # <<>>
        /\ trips # <<>> => get_data_from_url(url) = trips

\* C10 as amended: the parameter always decodes to exactly the trip list,
\* and every operation that changes the list leaves the parameter absent
\* exactly when the list is empty.
C10_UrlDecodesToTrips ==
    /\ [](UrlApp => get_data_from_url(url) = trips)
    /\ [][(UrlApp /\ trips' # trips) => (url'.present <=> trips' # <<>>)]_vars

C10_Witness ==
    /\ app = "2"
    /\ Len(trips) = 2
    /\ date_gt(trips[1].start, trips[2].start)
    /\ url.present
    /\ get_data_from_url(url) = trips

====
